---- MODULE Spec2Model ----
(***************************************************************************)
(* Model of metalift's concrete-execution bridge (src/metalift/concrete.py)*)
(* and of the Python front end (src/frontend/python.py).                   *)
(*                                                                         *)
(* Five specifications share one set of variables:                         *)
(*   SpecBridge    concurrent compile_function calls against the            *)
(*                 process-wide _engine, one source statement per step;    *)
(*   SpecCompile   the same calls made one after the other;                *)
(*   SpecTraces    gen_traces driving Generator.sample_args and a callable;*)
(*   SpecTranslate translate over bounded single-function syntax trees;     *)
(*   SpecFile      translate_file over bounded module syntax trees.         *)
(***************************************************************************)
EXTENDS Integers, Sequences, FiniteSets, TLC

VARIABLES
  \* ---- concrete.py: compile_function -----------------------------------
  _engine,      \* the module global: None or the id of an engine
  engines,      \* every engine create_execution_engine has built, by id
  pc,           \* per call: the statement of compile_function it is at
  analysis,     \* per call: the analysis argument
  mod,          \* per call: local `mod`
  engine,       \* per call: local `engine`
  func_ptr,     \* per call: local `func_ptr`
  outcome,      \* per call: what it returned or raised
  \* ---- concrete.py: gen_traces -----------------------------------------
  tpc,          \* the statement of gen_traces the caller is at
  cfunc,        \* the cfunc argument
  tanalysis,    \* the analysis argument
  count,        \* the count argument
  iter,         \* iterations of the for loop started so far
  args,         \* local `args`
  choices,      \* the class rnd.choice drew in sample_int for each element of
                \* args, until the callable is invoked
  ret,          \* local `ret`
  traces,       \* local `traces`
  invocations,  \* what the callable has been invoked with and what it returned
  toutcome,     \* what gen_traces returned or raised
  \* ---- frontend/python.py: translate, translate_file --------------------
  tr_tree,      \* the syntax tree of the latest translation call
  tr_e,         \* its Translator object, as the call left it
  tr_v,         \* what the call returned or raised
  history       \* tree and outcome of every translate_file call so far

bridgeVars == <<_engine, engines, pc, analysis, mod, engine, func_ptr, outcome>>

traceVars == <<tpc, cfunc, tanalysis, count, iter, args, choices, ret, traces,
               invocations, toutcome>>

translateVars == <<tr_tree, tr_e, tr_v, history>>

vars == <<bridgeVars, traceVars, translateVars>>

-----------------------------------------------------------------------------
(* Bounds *)
MaxCalls == 2
MaxArgs == 1
MaxTraceArgs == 1
MaxCount == 2
MaxCallArgs == 2
MaxModuleStmts == 2
MaxTranslations == 2

-----------------------------------------------------------------------------
(* Python values *)
None == [kind |-> "None"]
Raised(exc) == [kind |-> "raise", exc |-> exc]

\* the compile_function calls of the process, each running in a thread of its own
Calls == 1..MaxCalls

\* metalift.ir Type objects as far as concrete.py reads them: tpe.name
TypeNames == {"Int", "Float"}

SeqsUpTo(S, n) == UNION {[1..k -> S] : k \in 0..n}

\* AnalysisResult: name, return_type, arguments (each argument has a .type)
Arguments == [type : TypeNames]
Analyses ==
  [name : {"f"}, return_type : TypeNames, arguments : SeqsUpTo(Arguments, MaxArgs)]

\* The textual modules compile_function may be pointed at, by the set of
\* functions each one defines.
Files == {"f.ll", "g.ll"}
Defines(file) == IF file = "f.ll" THEN {"f"} ELSE {"g"}

-----------------------------------------------------------------------------
(* concrete.py, lines 80-89 *)

\* variant: a type without a marshaling rule is passed as a C int
_meta_tpe_to_c_tpe_default_int(tpe) ==
  [kind |-> "ctype", name |-> "c_int"]

\* ctypes type for one metalift type, or the NotImplementedError it raises
_meta_tpe_to_c_tpe(tpe) ==
  IF tpe = "Int" THEN [kind |-> "ctype", name |-> "c_int"]
  ELSE Raised("NotImplementedError")

\* the list comprehension raises at the first type that has no ctypes type;
\* otherwise ctypes.CFUNCTYPE(restype, *argtypes)
_analysis_to_c_func(a) ==
  LET types == <<a.return_type>> \o [i \in 1..Len(a.arguments) |-> a.arguments[i].type]
      c_types == [i \in 1..Len(types) |-> _meta_tpe_to_c_tpe(types[i])]
      bad == {i \in 1..Len(types) : c_types[i].kind = "raise"}
  IN IF bad # {}
     THEN c_types[CHOOSE i \in bad : \A j \in bad : i <= j]
     ELSE [kind |-> "CFUNCTYPE",
           restype |-> c_types[1].name,
           argtypes |-> [i \in 1..(Len(types) - 1) |-> c_types[i + 1].name]]

(* concrete.py, lines 95-107: a new engine with an empty backing module *)
create_execution_engine ==
  [modules |-> <<>>, finalized |-> {}, constructed |-> {}]

\* llvmlite ExecutionEngine methods used by compile_function
add_module(e, m) == [e EXCEPT !.modules = Append(@, m)]
finalize_object(e) == [e EXCEPT !.finalized = {e.modules[i] : i \in 1..Len(e.modules)}]
run_static_constructors(e) == [e EXCEPT !.constructed = e.finalized]
get_function_address(e, name) ==
  IF \E m \in e.finalized : name \in Defines(m.file) THEN 1 ELSE 0

-----------------------------------------------------------------------------
(* compile_function, lines 57-77, one statement per step *)


\* lines 57-63: the call, open/read, parse_assembly, verify
compile_function(t) ==
  /\ pc[t] = "idle"
  /\ \E filename \in Files, a \in Analyses :
       /\ analysis' = [analysis EXCEPT ![t] = a]
       /\ mod' = [mod EXCEPT ![t] = [kind |-> "module", id |-> t, file |-> filename]]
  /\ pc' = [pc EXCEPT ![t] = "test_engine"]
  /\ UNCHANGED <<_engine, engines, engine, func_ptr, outcome, traceVars, translateVars>>

\* line 65: if _engine is None
TestEngine(t) ==
  /\ pc[t] = "test_engine"
  /\ pc' = [pc EXCEPT ![t] = IF _engine = None THEN "create_engine" ELSE "load_engine"]
  /\ UNCHANGED <<_engine, engines, analysis, mod, engine, func_ptr, outcome, traceVars, translateVars>>

\* line 66: _engine = create_execution_engine()
CreateEngine(t) ==
  /\ pc[t] = "create_engine"
  /\ engines' = Append(engines, create_execution_engine)
  /\ _engine' = [kind |-> "engine", id |-> Len(engines) + 1]
  /\ pc' = [pc EXCEPT ![t] = "load_engine"]
  /\ UNCHANGED <<analysis, mod, engine, func_ptr, outcome, traceVars, translateVars>>

\* line 67: engine = _engine
LoadEngine(t) ==
  /\ pc[t] = "load_engine"
  /\ engine' = [engine EXCEPT ![t] = _engine]
  /\ pc' = [pc EXCEPT ![t] = "add_module"]
  /\ UNCHANGED <<_engine, engines, analysis, mod, func_ptr, outcome, traceVars, translateVars>>

\* line 69: engine.add_module(mod)
AddModule(t) ==
  /\ pc[t] = "add_module"
  /\ engines' = [engines EXCEPT ![engine[t].id] = add_module(@, mod[t])]
  /\ pc' = [pc EXCEPT ![t] = "finalize_object"]
  /\ UNCHANGED <<_engine, analysis, mod, engine, func_ptr, outcome, traceVars, translateVars>>

\* line 70: engine.finalize_object()
FinalizeObject(t) ==
  /\ pc[t] = "finalize_object"
  /\ engines' = [engines EXCEPT ![engine[t].id] = finalize_object(@)]
  /\ pc' = [pc EXCEPT ![t] = "run_static_constructors"]
  /\ UNCHANGED <<_engine, analysis, mod, engine, func_ptr, outcome, traceVars, translateVars>>

\* line 71: engine.run_static_constructors()
RunStaticConstructors(t) ==
  /\ pc[t] = "run_static_constructors"
  /\ engines' = [engines EXCEPT ![engine[t].id] = run_static_constructors(@)]
  /\ pc' = [pc EXCEPT ![t] = "get_function_address"]
  /\ UNCHANGED <<_engine, analysis, mod, engine, func_ptr, outcome, traceVars, translateVars>>

\* lines 74-75: func_ptr = engine.get_function_address(analysis.name)
GetFunctionAddress(t) ==
  /\ pc[t] = "get_function_address"
  /\ func_ptr' = [func_ptr EXCEPT ![t] =
                    get_function_address(engines[engine[t].id], analysis[t].name)]
  /\ pc' = [pc EXCEPT ![t] = "make_cfunc"]
  /\ UNCHANGED <<_engine, engines, analysis, mod, engine, outcome, traceVars, translateVars>>

\* lines 76-77: cfunc = _analysis_to_c_func(analysis)(func_ptr); return cfunc
MakeCFunc(t) ==
  /\ pc[t] = "make_cfunc"
  /\ LET proto == _analysis_to_c_func(analysis[t])
     IN outcome' = [outcome EXCEPT ![t] =
                      IF proto.kind = "raise" THEN proto
                      ELSE [kind |-> "cfunc", proto |-> proto, addr |-> func_ptr[t]]]
  /\ pc' = [pc EXCEPT ![t] = "done"]
  /\ UNCHANGED <<_engine, engines, analysis, mod, engine, func_ptr, traceVars, translateVars>>

\* a call made when every earlier call of the process has returned
compile_function_in_turn(t) ==
  /\ \A u \in Calls : pc[u] = IF u < t THEN "done" ELSE "idle"
  /\ compile_function(t)

NextBridge ==
  \E t \in Calls :
    \/ compile_function(t)
    \/ TestEngine(t)
    \/ CreateEngine(t)
    \/ LoadEngine(t)
    \/ AddModule(t)
    \/ FinalizeObject(t)
    \/ RunStaticConstructors(t)
    \/ GetFunctionAddress(t)
    \/ MakeCFunc(t)

NextCompile ==
  \E t \in Calls :
    \/ compile_function_in_turn(t)
    \/ TestEngine(t)
    \/ CreateEngine(t)
    \/ LoadEngine(t)
    \/ AddModule(t)
    \/ FinalizeObject(t)
    \/ RunStaticConstructors(t)
    \/ GetFunctionAddress(t)
    \/ MakeCFunc(t)

-----------------------------------------------------------------------------
(* Python integers.  The sampler's bounds are 1 << 31 wide, so an integer is
   kept as two limbs, hi * Limb + lo with 0 <= lo < Limb, which leaves room
   for values outside the signed 32-bit range. *)
Limb == 65536
PyInt(i) == [hi |-> i \div Limb, lo |-> i % Limb]
Neg(a) == IF a.lo = 0 THEN [hi |-> 0 - a.hi, lo |-> 0]
          ELSE [hi |-> 0 - a.hi - 1, lo |-> Limb - a.lo]
MinusOne(a) == IF a.lo > 0 THEN [hi |-> a.hi, lo |-> a.lo - 1]
               ELSE [hi |-> a.hi - 1, lo |-> Limb - 1]
Shl1(n) == IF n < 16 THEN [hi |-> 0, lo |-> 2^n] ELSE [hi |-> 2^(n - 16), lo |-> 0]
Leq(a, b) == a.hi < b.hi \/ (a.hi = b.hi /\ a.lo <= b.lo)

\* variant: the largest unsigned 32-bit value
_MaxInt_unsigned == MinusOne(Shl1(32))

(* concrete.py, lines 17-21 *)
_MaxInt == MinusOne(Shl1(32 - 1))
_MinInt == Neg(Shl1(32 - 1))
_SpecialInt == <<PyInt(-1), PyInt(1), PyInt(0), _MinInt, _MaxInt>>
_SmallIntMin == PyInt(-13)
_SmallIntMax == PyInt(13)

\* The integers the random source is observed to produce: the ends of the
\* ranges the sampler uses, their outer neighbours, and a value past 32 bits.
RandomInts ==
  { [hi |-> -32769, lo |-> 65535], [hi |-> -32768, lo |-> 0],
    PyInt(0), PyInt(13),
    [hi |-> 32767, lo |-> 65535], [hi |-> 32768, lo |-> 0],
    [hi |-> 65535, lo |-> 65535] }

\* random.Random.randint(a, b): some N with a <= N <= b
randint(a, b) == {n \in RandomInts : Leq(a, n) /\ Leq(n, b)}
\* random.Random.choice(seq): some element of seq
choice(seq) == {seq[i] : i \in 1..Len(seq)}

(* Generator.sample_int, lines 36-43: the values it can return once
   rnd.choice has drawn class c *)
sample_int(c) ==
  IF c = "All" THEN randint(_MinInt, _MaxInt)
  ELSE IF c = "Small" THEN randint(_SmallIntMin, _SmallIntMax)
  ELSE choice(_SpecialInt)

SampleClasses == <<"All", "Small", "Special">>

(* Generator.sample_tpe, lines 31-34: every <<class drawn, value returned>>
   sampling a value of tpe can end with; none when it raises *)
sample_tpe(tpe) ==
  IF tpe = "Int"
  THEN UNION {{<<c, v>> : v \in sample_int(c)} : c \in choice(SampleClasses)}
  ELSE {}

(* Generator.sample_args, lines 28-29: one sample per argument, in order *)
sample_args(a) ==
  {s \in [1..Len(a.arguments) -> UNION {sample_tpe(t) : t \in TypeNames}] :
     \A i \in 1..Len(a.arguments) : s[i] \in sample_tpe(a.arguments[i].type)}

\* the compiled functions gen_traces is handed: one returning 7, one
\* returning its first argument
CFuncs == {"seven", "first"}
CallCFunc(cf, cargs) ==
  IF cf = "first" /\ Len(cargs) > 0 THEN cargs[1] ELSE PyInt(7)

TraceAnalyses ==
  [name : {"f"}, return_type : {"Int"}, arguments : SeqsUpTo(Arguments, MaxTraceArgs)]

Counts == (0 - 1)..MaxCount

-----------------------------------------------------------------------------
(* gen_traces, lines 46-54 *)


\* lines 46-49: the call, assert count >= 0, traces = [], gen = Generator(rnd)
gen_traces ==
  /\ tpc = "idle"
  /\ \E cf \in CFuncs, a \in TraceAnalyses, n \in Counts :
       /\ cfunc' = cf
       /\ tanalysis' = a
       /\ count' = n
       /\ IF n >= 0
          THEN tpc' = "for" /\ toutcome' = None
          ELSE tpc' = "done" /\ toutcome' = Raised("AssertionError")
  /\ iter' = 0
  /\ traces' = <<>>
  /\ args' = <<>>
  /\ choices' = <<>>
  /\ ret' = None
  /\ invocations' = <<>>
  /\ UNCHANGED <<bridgeVars, translateVars>>

\* line 50: for _ in range(count); line 54: return traces
ForRange ==
  /\ tpc = "for"
  /\ IF iter < count
     THEN tpc' = "sample_args" /\ iter' = iter + 1 /\ UNCHANGED toutcome
     ELSE /\ tpc' = "done"
          /\ toutcome' = [kind |-> "list", items |-> traces]
          /\ UNCHANGED iter
  /\ UNCHANGED <<cfunc, tanalysis, count, args, choices, ret, traces, invocations, bridgeVars, translateVars>>

\* line 51: args = gen.sample_args(analysis), lines 28-43
SampleArgs ==
  /\ tpc = "sample_args"
  /\ IF sample_args(tanalysis) = {}
     THEN /\ tpc' = "done"
          /\ toutcome' = Raised("NotImplementedError")
          /\ UNCHANGED <<args, choices>>
     ELSE /\ \E s \in sample_args(tanalysis) :
               /\ choices' = [i \in DOMAIN s |-> s[i][1]]
               /\ args' = [i \in DOMAIN s |-> s[i][2]]
          /\ tpc' = "invoke"
          /\ UNCHANGED toutcome
  /\ UNCHANGED <<cfunc, tanalysis, count, iter, ret, traces, invocations, bridgeVars, translateVars>>

\* line 52: ret = cfunc(*args)
Invoke ==
  /\ tpc = "invoke"
  /\ ret' = CallCFunc(cfunc, args)
  /\ invocations' = Append(invocations, [args |-> args, ret |-> CallCFunc(cfunc, args)])
  /\ choices' = <<>>
  /\ tpc' = "append"
  /\ UNCHANGED <<cfunc, tanalysis, count, iter, args, traces, toutcome, bridgeVars, translateVars>>

\* variant: the record replaces the list instead of being appended
AppendTrace_overwrite ==
  /\ tpc = "append"
  /\ traces' = <<<<ret, args>>>>
  /\ tpc' = "for"
  /\ UNCHANGED <<cfunc, tanalysis, count, iter, args, choices, ret, invocations, toutcome, bridgeVars, translateVars>>

\* line 53: traces.append((ret, args))
AppendTrace ==
  /\ tpc = "append"
  /\ traces' = Append(traces, <<ret, args>>)
  /\ tpc' = "for"
  /\ UNCHANGED <<cfunc, tanalysis, count, iter, args, choices, ret, invocations, toutcome, bridgeVars, translateVars>>

\* the caller drops the result; nothing of the call outlives it
ReturnTraces ==
  /\ tpc = "done"
  /\ tpc' = "idle"
  /\ cfunc' = None
  /\ tanalysis' = None
  /\ count' = 0
  /\ iter' = 0
  /\ args' = <<>>
  /\ choices' = <<>>
  /\ ret' = None
  /\ traces' = <<>>
  /\ invocations' = <<>>
  /\ toutcome' = None
  /\ UNCHANGED <<bridgeVars, translateVars>>

NextTraces ==
  \/ gen_traces
  \/ ForRange
  \/ SampleArgs
  \/ Invoke
  \/ AppendTrace
  \/ ReturnTraces

-----------------------------------------------------------------------------
(* frontend/python.py: the syntax tree the translator consumes (Python's ast
   nodes, by class name and fields) *)
ast_Name(id) == [kind |-> "Name", id |-> id]
ast_Constant(value) == [kind |-> "Constant", value |-> value]
ast_BinOp(left, op, right) == [kind |-> "BinOp", left |-> left, op |-> op, right |-> right]
ast_UnaryOp(op, operand) == [kind |-> "UnaryOp", op |-> op, operand |-> operand]
ast_Compare(left, ops, comparators) ==
  [kind |-> "Compare", left |-> left, ops |-> ops, comparators |-> comparators]
ast_Call(func, cargs) == [kind |-> "Call", func |-> func, args |-> cargs]
ast_Attribute(value, attr) == [kind |-> "Attribute", value |-> value, attr |-> attr]
ast_Subscript(value, slice) == [kind |-> "Subscript", value |-> value, slice |-> slice]
ast_Starred(value) == [kind |-> "Starred", value |-> value]
ast_AnnAssign(target, annotation, value) ==
  [kind |-> "AnnAssign", target |-> target, annotation |-> annotation, value |-> value]
ast_Assign(targets, value) == [kind |-> "Assign", targets |-> targets, value |-> value]
ast_Return(value) == [kind |-> "Return", value |-> value]
ast_If(test, body, orelse) == [kind |-> "If", test |-> test, body |-> body, orelse |-> orelse]
ast_While(test, body) == [kind |-> "While", test |-> test, body |-> body]
ast_Expr(value) == [kind |-> "Expr", value |-> value]
ast_Break == [kind |-> "Break"]
ast_Continue == [kind |-> "Continue"]
ast_Pass == [kind |-> "Pass"]
ast_arg(name, annotation) == [kind |-> "arg", arg |-> name, annotation |-> annotation]
ast_arguments(fargs) == [kind |-> "arguments", args |-> fargs]
ast_FunctionDef(name, fargs, body, returns) ==
  [kind |-> "FunctionDef", name |-> name, args |-> fargs, body |-> body, returns |-> returns]
ast_Import(names) == [kind |-> "Import", names |-> names]
ast_alias(name) == [kind |-> "alias", name |-> name]
ast_Module(body) == [kind |-> "Module", body |-> body]

\* Python values the translator handles besides nodes
Str(s) == [kind |-> "str", s |-> s]
List(items) == [kind |-> "list", items |-> items]
Dict(m) == [kind |-> "dict", m |-> m]
PyConst(type, repr) == [type |-> type, repr |-> repr]
RaisedMsg(exc, msg) == [kind |-> "raise", exc |-> exc, msg |-> msg]
IsRaise(v) == v.kind = "raise"

\* the ir module's node constructors, as the translator calls them
ir_Var(name, type) == [kind |-> "Var", name |-> name, type |-> type]
ir_Field(target, name) == [kind |-> "Field", target |-> target, name |-> name]
ir_BinaryOp(op, left, right) == [kind |-> "BinaryOp", op |-> op, args |-> <<left, right>>]
ir_UnaryOp(op, operand) == [kind |-> "UnaryOp", op |-> op, args |-> <<operand>>]
ir_Choose(cargs) == [kind |-> "Choose", args |-> cargs]
ir_Call(fn, cargs) == [kind |-> "Call", fn |-> fn, args |-> cargs]
ir_Lit(value, type) == [kind |-> "Lit", value |-> value, type |-> type]
ir_Unpack(e) == [kind |-> "Unpack", e |-> e]
ir_ListAccess(target, index, type) ==
  [kind |-> "ListAccess", target |-> target, index |-> index, type |-> type]
ir_Assign(left, right) == [kind |-> "Assign", left |-> left, right |-> right]
ir_Block(stmts) == [kind |-> "Block", stmts |-> stmts]
ir_If(cond, conseq, alt) == [kind |-> "If", cond |-> cond, conseq |-> conseq, alt |-> alt]
ir_While(cond, body) == [kind |-> "While", cond |-> cond, body |-> body]
ir_Return(e) == [kind |-> "Return", e |-> e]
ir_Branch(type) == [kind |-> "Branch", type |-> type]
ir_FnDecl(name, fargs, rtype, body) ==
  [kind |-> "FnDecl", name |-> name, args |-> fargs, rtype |-> rtype, body |-> body]
ir_Program(imports, fns) == [kind |-> "Program", imports |-> imports, fns |-> fns]

-----------------------------------------------------------------------------
(* class Translator.  Every method takes the translator object
   [fns, imports, vars] and returns the value it returns or the exception it
   raises, together with the object as the method leaves it. *)

R(val, self) == [val |-> val, self |-> self]

\* variant: imports is a class attribute, one list shared by every Translator
Translator_shared_imports ==
  [fns |-> Dict(<<>>),
   imports |-> IF tr_e = None THEN <<>> ELSE tr_e.imports,
   vars |-> None]

\* lines 10-13: Translator.__init__
Translator == [fns |-> Dict(<<>>), imports |-> <<>>, vars |-> None]

\* vars[name] = v
SetItem(d, key, v) == Dict([k \in DOMAIN d.m \cup {key} |-> IF k = key THEN v ELSE d.m[k]])
Contains(d, key) == key \in DOMAIN d.m

\* lines 31-46: the annotation as a string, or TypeError
RECURSIVE parse_type(_)
RECURSIVE parse_type_join(_, _)
parse_type_join(elts, i) ==
  IF i > Len(elts) THEN Str("")
  ELSE LET head == parse_type(elts[i])
           rest == parse_type_join(elts, i + 1)
       IN IF IsRaise(head) THEN head
          ELSE IF IsRaise(rest) THEN rest
          ELSE IF i = Len(elts) THEN head
          ELSE Str(head.s \o ", " \o rest.s)

parse_type(t) ==
  IF t.kind = "Name" THEN Str(t.id)
  ELSE IF t.kind = "Index" THEN parse_type(t.value)
  ELSE IF t.kind = "Subscript" THEN
    LET base == parse_type(t.value)
        elts == parse_type(t.slice)
    IN IF IsRaise(base) THEN base
       ELSE IF IsRaise(elts) THEN elts
       ELSE Str(base.s \o "[" \o elts.s \o "]")
  ELSE IF t.kind = "List" THEN
    LET inner == parse_type_join(t.elts, 1)
    IN IF IsRaise(inner) THEN inner ELSE Str("[" \o inner.s \o "]")
  ELSE IF t.kind = "Tuple" THEN parse_type_join(t.elts, 1)
  ELSE RaisedMsg("TypeError", "NYI")

\* eval(parsed_type) in the namespace of frontend/python.py: the builtins and
\* typing.List / typing.Callable
EvalNames == {"int", "bool", "List[int]", "List[bool]"}
eval(parsed) ==
  IF IsRaise(parsed) THEN parsed
  ELSE IF parsed.s \in EvalNames THEN [kind |-> "type", name |-> parsed.s]
  ELSE RaisedMsg("NameError", "name is not defined")

\* lines 18-29
RECURSIVE visit_arguments_from(_, _, _, _)
visit_arguments_from(n, i, acc, self) ==
  IF i > Len(n.args) THEN R(List(acc), self)
  ELSE LET a == n.args[i]
           type_ == eval(parse_type(a.annotation))
           v == ir_Var(a.arg, type_)
       IN IF IsRaise(type_) THEN R(type_, self)
          ELSE visit_arguments_from(n, i + 1, Append(acc, v),
                                    [self EXCEPT !.vars = SetItem(@, v.name, v)])

visit_arguments(n, self) == visit_arguments_from(n, 1, <<>>, self)

RECURSIVE visit(_, _)

\* [self.visit(s) for s in nodes]: stops at the first element that raises
RECURSIVE visit_each(_, _, _, _)
visit_each(nodes, i, acc, self) ==
  IF i > Len(nodes) THEN R(List(acc), self)
  ELSE LET r == visit(nodes[i], self)
       IN IF IsRaise(r.val) THEN r
          ELSE visit_each(nodes, i + 1, Append(acc, r.val), r.self)

\* lines 49-50
visit_Attribute(n, self) ==
  LET r == visit(n.value, self)
  IN IF IsRaise(r.val) THEN r ELSE R(ir_Field(r.val, n.attr), r.self)

\* lines 72-99
resolve(v, is_var, self) ==
  IF v.kind = "Name" THEN
    IF is_var THEN
      IF ~Contains(self.vars, v.id)
      THEN R(RaisedMsg("NameError", "variable not found: " \o v.id), self)
      ELSE R(self.vars.m[v.id], self)
    ELSE R(Str(v.id), self)
  ELSE IF v.kind = "Attribute" THEN visit(v, self)
  ELSE IF v.kind = "Constant" THEN visit(v, self)
  ELSE IF v.kind = "Call" THEN visit(v, self)
  ELSE IF v.kind = "Subscript" THEN R(RaisedMsg("TypeError", "xxx"), self)
  ELSE R(RaisedMsg("TypeError", "NYI"), self)

\* lines 60-61, 155-158, 165-168: resolve a bare name, visit anything else
resolve_if_Name(v, self) ==
  IF v.kind = "Name" THEN resolve(v, TRUE, self) ELSE visit(v, self)

\* lines 52-63
BinOps == [Add |-> "add", Sub |-> "sub", Mult |-> "mul", Div |-> "floordiv"]
visit_BinOp(n, self) ==
  IF n.op \notin DOMAIN BinOps THEN R(RaisedMsg("TypeError", "NYI"), self)
  ELSE LET left == resolve_if_Name(n.left, self)
           right == resolve_if_Name(n.right, left.self)
       IN IF IsRaise(left.val) THEN left
          ELSE IF IsRaise(right.val) THEN right
          ELSE R(ir_BinaryOp(BinOps[n.op], left.val, right.val), right.self)

\* lines 65-70
visit_UnaryOp(n, self) ==
  IF n.op # "Not" THEN R(RaisedMsg("TypeError", "NYI"), self)
  ELSE LET operand == resolve(n.operand, TRUE, self)
       IN IF IsRaise(operand.val) THEN operand
          ELSE R(ir_UnaryOp("not_", operand.val), operand.self)

\* lines 101-109
visit_Call(n, self) ==
  LET cargs == visit_each(n.args, 1, <<>>, self)
      fn == resolve(n.func, FALSE, cargs.self)
  IN IF IsRaise(cargs.val) THEN cargs
     ELSE IF IsRaise(fn.val) THEN fn
     ELSE IF \/ (fn.val.kind = "str" /\ fn.val.s = "Choose")
             \/ /\ fn.val.kind = "Field"
                /\ fn.val.target.kind = "str" /\ fn.val.target.s = "ir"
                /\ fn.val.name = "Choose"
     THEN R(ir_Choose(cargs.val.items), fn.self)
     ELSE R(ir_Call(fn.val, cargs.val.items), fn.self)

\* lines 111-124
CmpOps == [Eq |-> "eq", Lt |-> "lt", Gt |-> "gt", LtE |-> "le", GtE |-> "ge", NotEq |-> "ne"]
visit_Compare(n, self) ==
  IF Len(n.ops) > 1 THEN R(RaisedMsg("TypeError", "NYI"), self)
  ELSE IF Len(n.comparators) > 1 THEN R(RaisedMsg("TypeError", "NYI"), self)
  ELSE IF n.ops[1] \notin DOMAIN CmpOps THEN R(RaisedMsg("TypeError", "NYI"), self)
  ELSE LET left == resolve(n.left, TRUE, self)
           right == resolve(n.comparators[1], TRUE, left.self)
       IN IF IsRaise(left.val) THEN left
          ELSE IF IsRaise(right.val) THEN right
          ELSE R(ir_BinaryOp(CmpOps[n.ops[1]], left.val, right.val), right.self)

\* lines 126-132
visit_Constant(n, self) ==
  IF n.value.type = "bool" THEN R(ir_Lit(n.value, "bool"), self)
  ELSE IF n.value.type = "int" THEN R(ir_Lit(n.value, "int"), self)
  ELSE IF n.value.type = "NoneType" THEN R(ir_Lit(n.value, "None"), self)
  ELSE R(RaisedMsg("TypeError", "NYI"), self)

\* lines 134-135
visit_Expr(n, self) == visit(n.value, self)

\* lines 137-138
visit_Index(n, self) == visit(n.value, self)

\* lines 140-141
visit_Name(n, self) == R(Str(n.id), self)

\* lines 143-144
visit_Starred(n, self) ==
  LET r == visit(n.value, self)
  IN IF IsRaise(r.val) THEN r ELSE R(ir_Unpack(r.val), r.self)

\* lines 146-147
visit_Subscript(n, self) ==
  LET target == visit(n.value, self)
      index == visit(n.slice, target.self)
  IN IF IsRaise(target.val) THEN target
     ELSE IF IsRaise(index.val) THEN index
     ELSE R(ir_ListAccess(target.val, index.val, None), index.self)

\* lines 150-161
visit_AnnAssign(n, self) ==
  LET type_ == eval(parse_type(n.annotation))
      v == ir_Var(n.target.id, type_)
      declared == [self EXCEPT !.vars = SetItem(@, v.name, v)]
      val == resolve_if_Name(n.value, declared)
  IN IF IsRaise(type_) THEN R(type_, self)
     ELSE IF n.value = None THEN R(v, declared)
     ELSE IF IsRaise(val.val) THEN val
     ELSE R(ir_Assign(v, val.val), val.self)

\* lines 163-171
visit_Assign(n, self) ==
  LET val == resolve_if_Name(n.value, self)
      target == visit(n.targets[1], val.self)
  IN IF IsRaise(val.val) THEN val
     ELSE IF Len(n.targets) > 1 THEN R(RaisedMsg("TypeError", "multi-assign NYI"), val.self)
     ELSE IF IsRaise(target.val) THEN target
     ELSE IF target.val.kind = "str" /\ Contains(target.self.vars, target.val.s)
     THEN R(ir_Assign(target.self.vars.m[target.val.s], val.val), target.self)
     ELSE R(RaisedMsg("KeyError", "vars"), target.self)

\* lines 173-178
visit_FunctionDef(n, self) ==
  LET fresh == [self EXCEPT !.vars = Dict(<<>>)]
      fargs == visit_arguments(n.args, fresh)
      body == visit_each(n.body, 1, <<>>, fargs.self)
      rtype == parse_type(n.returns)
  IN IF IsRaise(fargs.val) THEN fargs
     ELSE IF IsRaise(body.val) THEN body
     ELSE IF IsRaise(rtype) THEN R(rtype, body.self)
     ELSE R(ir_FnDecl(n.name, fargs.val.items, rtype.s, ir_Block(body.val.items)), body.self)

\* lines 180-182
visit_If(n, self) ==
  LET test == visit(n.test, self)
      body == visit_each(n.body, 1, <<>>, test.self)
      orelse == visit_each(n.orelse, 1, <<>>, body.self)
  IN IF IsRaise(test.val) THEN test
     ELSE IF IsRaise(body.val) THEN body
     ELSE IF IsRaise(orelse.val) THEN orelse
     ELSE R(ir_If(test.val, ir_Block(body.val.items), ir_Block(orelse.val.items)), orelse.self)

\* lines 194-195
visit_While(n, self) ==
  LET test == visit(n.test, self)
      body == visit_each(n.body, 1, <<>>, test.self)
  IN IF IsRaise(test.val) THEN test
     ELSE IF IsRaise(body.val) THEN body
     ELSE R(ir_While(test.val, body.val.items), body.self)

\* lines 207-215
visit_Return(n, self) ==
  IF n.value = None THEN R(ir_Return(None), self)
  ELSE LET v == IF n.value.kind = "Name" \/
                   (n.value.kind = "Constant" /\ n.value.value.type \in {"int", "float", "complex", "str"})
                THEN resolve(n.value, TRUE, self)
                ELSE visit(n.value, self)
       IN IF IsRaise(v.val) THEN v ELSE R(ir_Return(v.val), v.self)

\* lines 217-218
visit_Break(n, self) == R(ir_Branch("Break"), self)

\* lines 220-221
visit_Continue(n, self) == R(ir_Branch("Continue"), self)

\* lines 184-192
RECURSIVE register(_, _, _)
register(body, i, self) ==
  IF i > Len(body) THEN self
  ELSE LET s == body[i]
           withFn == IF s.kind = "FunctionDef"
                     THEN [self EXCEPT !.fns = SetItem(@, s.name, None)]
                     ELSE self
           withImport == IF s.kind = "Import"
                         THEN [withFn EXCEPT !.imports = Append(@, s.names[1].name)]
                         ELSE withFn
       IN register(body, i + 1, withImport)

visit_Module(n, self) ==
  LET registered == register(n.body, 1, self)
      defs == SelectSeq(n.body, LAMBDA f : f.kind = "FunctionDef")
      fns == visit_each(defs, 1, <<>>, registered)
  IN IF IsRaise(fns.val) THEN fns
     ELSE R(ir_Program(fns.self.imports, fns.val.items), fns.self)

\* ast.NodeVisitor.visit: the visit_<class name> method of the node, and
\* generic_visit (which hands back a childless node as it is) when there is none
visit(n, self) ==
  CASE n.kind = "arguments" -> visit_arguments(n, self)
    [] n.kind = "Attribute" -> visit_Attribute(n, self)
    [] n.kind = "BinOp" -> visit_BinOp(n, self)
    [] n.kind = "UnaryOp" -> visit_UnaryOp(n, self)
    [] n.kind = "Call" -> visit_Call(n, self)
    [] n.kind = "Compare" -> visit_Compare(n, self)
    [] n.kind = "Constant" -> visit_Constant(n, self)
    [] n.kind = "Expr" -> visit_Expr(n, self)
    [] n.kind = "Index" -> visit_Index(n, self)
    [] n.kind = "Name" -> visit_Name(n, self)
    [] n.kind = "Starred" -> visit_Starred(n, self)
    [] n.kind = "Subscript" -> visit_Subscript(n, self)
    [] n.kind = "AnnAssign" -> visit_AnnAssign(n, self)
    [] n.kind = "Assign" -> visit_Assign(n, self)
    [] n.kind = "FunctionDef" -> visit_FunctionDef(n, self)
    [] n.kind = "If" -> visit_If(n, self)
    [] n.kind = "Module" -> visit_Module(n, self)
    [] n.kind = "While" -> visit_While(n, self)
    [] n.kind = "Return" -> visit_Return(n, self)
    [] n.kind = "Break" -> visit_Break(n, self)
    [] n.kind = "Continue" -> visit_Continue(n, self)
    [] OTHER -> R(n, self)

-----------------------------------------------------------------------------
(* The syntax trees handed to the translator *)

int == ast_Name("int")
one == ast_Constant(PyConst("int", "1"))
x == ast_Name("x")      \* the parameter of f
y == ast_Name("y")      \* declared in some bodies by `y: int`
z == ast_Name("z")      \* declared nowhere

\* expressions used as operands: names, a literal, and one nested expression
\* of every kind
Operands ==
  { x, z, one,
    ast_BinOp(x, "Add", one),
    ast_Compare(x, <<"Lt">>, <<one>>),
    ast_UnaryOp("Not", x),
    ast_Subscript(x, one),
    ast_Call(ast_Name("g"), <<x>>),
    ast_Attribute(ast_Name("ir"), "a") }

\* the operator tokens of lines 54-57, 67, 116-121, and one more of each class
BinOpTokens == {"Add", "Sub", "Mult", "Div", "Mod"}
UnaryOpTokens == {"Not", "USub"}
CmpOpTokens == {"Eq", "Lt", "Gt", "LtE", "GtE", "NotEq", "In"}

OperandPairs == {<<o, x>> : o \in Operands} \cup {<<x, o>> : o \in Operands}

OperatorExprs ==
  {ast_BinOp(p[1], op, p[2]) : p \in OperandPairs, op \in BinOpTokens}
  \cup {ast_UnaryOp(op, o) : op \in UnaryOpTokens, o \in Operands}
  \cup {ast_Compare(p[1], <<op>>, <<p[2]>>) : p \in OperandPairs, op \in CmpOpTokens}
  \cup {ast_Compare(x, <<"Lt", "Lt">>, <<one, x>>)}

Callees ==
  { ast_Name("Choose"), ast_Name("g"),
    ast_Attribute(ast_Name("ir"), "Choose"),
    ast_Attribute(ast_Name("ir"), "g"),
    ast_Attribute(ast_Name("x"), "Choose"),
    ast_Subscript(x, one),
    ast_Call(ast_Name("g"), <<>>) }

CallArgs == {x, one, z, ast_Starred(x)}

CallExprs == {ast_Call(c, a) : c \in Callees, a \in SeqsUpTo(CallArgs, MaxCallArgs)}

\* every statement position a value can stand in
ValueContexts(a) ==
  { ast_Return(a),
    ast_AnnAssign(ast_Name("w"), int, a),
    ast_Assign(<<x>>, a),
    ast_If(a, <<ast_Return(x)>>, <<>>),
    ast_While(a, <<ast_Break>>),
    ast_Expr(a) }

Bodies ==
  {<<ast_Return(e)>> : e \in OperatorExprs \cup CallExprs}
  \cup UNION {{<<c>>, <<ast_AnnAssign(y, int, None), c>>} :
               c \in UNION {ValueContexts(a) : a \in Operands \cup {y}}}
  \cup { <<ast_Return(None)>>,
         <<ast_AnnAssign(y, int, y), ast_Return(y)>>,
         <<ast_AnnAssign(y, ast_Name("float32"), None)>>,
         <<ast_Assign(<<y>>, one)>>,
         <<ast_Assign(<<x, x>>, one)>>,
         <<ast_While(ast_Compare(x, <<"Lt">>, <<one>>),
                     <<ast_If(x, <<ast_Continue>>, <<ast_Pass>>)>>)>> }

f(body) == ast_FunctionDef("f", ast_arguments(<<ast_arg("x", int)>>), body, int)

\* translate(fn): ast.parse(inspect.getsource(fn)) is a module holding fn
FunctionSources == {ast_Module(<<f(b)>>) : b \in Bodies}

\* translate_file(name): modules of imports and functions
ModuleStmts ==
  { ast_Import(<<ast_alias("typing"), ast_alias("operator")>>),
    f(<<ast_Return(x)>>),
    ast_FunctionDef("g", ast_arguments(<<>>), <<ast_Return(x)>>, int) }

FileTrees == {ast_Module(b) : b \in SeqsUpTo(ModuleStmts, MaxModuleStmts)}

-----------------------------------------------------------------------------
(* lines 224-238 *)

\* e = Translator(); v = e.visit(tree); return v
translate ==
  /\ \E tree \in FunctionSources :
       LET r == visit(tree, Translator)
       IN /\ tr_tree' = tree
          /\ tr_e' = r.self
          /\ tr_v' = r.val
  /\ UNCHANGED <<history, bridgeVars, traceVars>>

translate_file ==
  /\ Len(history) < MaxTranslations
  /\ \E tree \in FileTrees :
       LET r == visit(tree, Translator)
       IN /\ tr_tree' = tree
          /\ tr_e' = r.self
          /\ tr_v' = r.val
          /\ history' = Append(history, [tree |-> tree, v |-> r.val])
  /\ UNCHANGED <<bridgeVars, traceVars>>

NextTranslate == translate

NextFile == translate_file

-----------------------------------------------------------------------------
(* Properties of compile_function *)

\* C1: across all compile_function calls of the process, concurrent ones
\* included, create_execution_engine runs at most once and every call loads
\* its module into that one engine.
EngineCreatedAtMostOnce ==
  /\ Len(engines) <= 1
  /\ \A t, u \in Calls :
       (engine[t] # None /\ engine[u] # None) => engine[t] = engine[u]

\* a call is inside its engine steps from add_module until
\* get_function_address has returned
InEngineSteps(t) ==
  pc[t] \in {"finalize_object", "run_static_constructors", "get_function_address"}

\* C2: the add_module .. get_function_address steps of one call are never
\* interleaved with those of another call on the shared engine.
EngineStepsNeverInterleave ==
  \A t, u \in Calls :
    (t # u /\ InEngineSteps(t) /\ InEngineSteps(u)) => engine[t] # engine[u]

Unsupported(a) ==
  a.return_type # "Int" \/ \E i \in 1..Len(a.arguments) : a.arguments[i].type # "Int"

\* C3: a compile_function call whose descriptor has a non-Int return or
\* argument type never yields a callable, and ends by raising
\* NotImplementedError.
UnsupportedTypeRaisesInCompile ==
  \A t \in Calls :
    (pc[t] # "idle" /\ Unsupported(analysis[t])) =>
      /\ outcome[t].kind # "cfunc"
      /\ pc[t] = "done" => outcome[t] = Raised("NotImplementedError")

UnsupportedTypeRaisesInCompileWitness ==
  \E t \in Calls :
    /\ pc[t] = "done"
    /\ analysis[t].return_type = "Int"
    /\ Len(analysis[t].arguments) > 0
    /\ Unsupported(analysis[t])
    /\ outcome[t] = Raised("NotImplementedError")

Loaded(e) == {e.modules[i] : i \in 1..Len(e.modules)} \cup e.finalized

\* C9: a compile_function call that raised for an unsupported type has left
\* nothing in any engine: its module is neither loaded nor finalized.
FailedCompileLeavesEngineUntouched ==
  \A t \in Calls :
    (pc[t] = "done" /\ outcome[t].kind = "raise") =>
      \A i \in 1..Len(engines) : mod[t] \notin Loaded(engines[i])

-----------------------------------------------------------------------------
(* Properties of gen_traces and the sampler *)

OnlyInt(a) == \A i \in 1..Len(a.arguments) : a.arguments[i].type = "Int"

\* C4: for count n >= 0 and only Int arguments, gen_traces invokes the
\* callable exactly n times and returns n records in invocation order, the
\* i-th being (value the i-th invocation returned, arguments passed to it);
\* the callable is never invoked more often than n times.
TracesRecordEveryInvocation ==
  (tpc # "idle" /\ count >= 0 /\ OnlyInt(tanalysis)) =>
    /\ Len(invocations) <= count
    /\ tpc = "done" =>
         /\ toutcome.kind = "list"
         /\ Len(toutcome.items) = count
         /\ Len(invocations) = count
         /\ \A i \in 1..count :
              toutcome.items[i] = <<invocations[i].ret, invocations[i].args>>

TracesRecordEveryInvocationWitness ==
  /\ tpc = "done"
  /\ toutcome.kind = "list"
  /\ Len(toutcome.items) >= 2
  /\ Len(toutcome.items[1][2]) >= 1
  /\ toutcome.items[1] # toutcome.items[2]

Int32Min == [hi |-> -32768, lo |-> 0]
Int32Max == [hi |-> 32767, lo |-> 65535]
InInt32(v) == Leq(Int32Min, v) /\ Leq(v, Int32Max)

\* C7: every sampled integer lies in [-2^31, 2^31-1]; one drawn in the Small
\* class lies in [-13, 13]; one drawn in the Special class is one of
\* -1, 1, 0, -2^31, 2^31-1; so does every argument of every trace record.
SampledIntsIn32BitRange ==
  /\ \A i \in 1..Len(args) : InInt32(args[i])
  /\ \A i \in 1..Len(choices) :
       /\ choices[i] = "Small" => Leq(PyInt(-13), args[i]) /\ Leq(args[i], PyInt(13))
       /\ choices[i] = "Special" =>
            args[i] \in {PyInt(-1), PyInt(1), PyInt(0), Int32Min, Int32Max}
  /\ \A k \in 1..Len(traces) : \A i \in 1..Len(traces[k][2]) : InInt32(traces[k][2][i])

SampledIntsIn32BitRangeWitness ==
  /\ Len(traces) >= 1
  /\ \E i \in 1..Len(traces[1][2]) : traces[1][2][i] = Int32Max
  /\ \E i \in 1..Len(choices) : choices[i] = "Small" /\ args[i] = PyInt(13)

-----------------------------------------------------------------------------
(* Properties of the translator *)

\* the one function of the tree translate was given, and where its lowering
\* sits in the result
TheFunction == tr_tree.body[1]
Translated == tr_v.kind = "Program"
TheReturn == tr_v.fns[1].body.stmts[1]
IsReturnOf(kind) ==
  /\ Len(TheFunction.body) = 1
  /\ TheFunction.body[1].kind = "Return"
  /\ TheFunction.body[1].value.kind = kind

\* the bare identifiers standing in a value position of an expression:
\* the expression itself, operator operands, call arguments
RECURSIVE ValueNames(_)
ValueNames(n) ==
  IF n.kind = "Name" THEN {n.id}
  ELSE IF n.kind = "BinOp" THEN ValueNames(n.left) \cup ValueNames(n.right)
  ELSE IF n.kind = "UnaryOp" THEN ValueNames(n.operand)
  ELSE IF n.kind = "Compare"
    THEN ValueNames(n.left) \cup UNION {ValueNames(n.comparators[i]) : i \in 1..Len(n.comparators)}
  ELSE IF n.kind = "Call" THEN UNION {ValueNames(n.args[i]) : i \in 1..Len(n.args)}
  ELSE {}

\* ... and of a statement: returned value, initializer, assigned value, condition
StmtValueNames(s) ==
  IF s.kind \in {"Return", "AnnAssign", "Assign"} THEN ValueNames(s.value)
  ELSE IF s.kind \in {"If", "While"} THEN ValueNames(s.test)
  ELSE IF s.kind = "Expr" /\ s.value.kind # "Name" THEN ValueNames(s.value)
  ELSE {}

DeclaredBefore(fn, i) ==
  {fn.args.args[k].arg : k \in 1..Len(fn.args.args)}
  \cup {fn.body[j].target.id : j \in {k \in 1..(i - 1) : fn.body[k].kind = "AnnAssign"}}

UsesUndeclaredName(fn) ==
  \E i \in 1..Len(fn.body) : StmtValueNames(fn.body[i]) \ DeclaredBefore(fn, i) # {}

\* C5: a function translates successfully only if every bare identifier in a
\* value position is a parameter or was declared by an earlier annotated
\* declaration of that function.
OnlyDeclaredNamesTranslate ==
  (tr_tree \in FunctionSources /\ Translated) => ~UsesUndeclaredName(TheFunction)

\* an argument list whose every element lowers on its own
Lowered(n) == visit(n, tr_e).val
AllLower(nodes) == \A i \in 1..Len(nodes) : ~IsRaise(Lowered(nodes[i]))
IsChooseCallee(c) ==
  \/ c = ast_Name("Choose")
  \/ c = ast_Attribute(ast_Name("ir"), "Choose")

\* C6: a call of Choose or ir.Choose with k arguments lowers to a Choose node
\* of the k lowered arguments in order; a call of any other callee lowers to a
\* Call node of that callee and the k lowered arguments in order.
CallsLowerToChooseOrCall ==
  (tr_tree \in FunctionSources /\ IsReturnOf("Call")
    /\ AllLower(TheFunction.body[1].value.args)) =>
      LET call == TheFunction.body[1].value
          k == Len(call.args)
      IN /\ Translated
         /\ TheReturn.kind = "Return"
         /\ TheReturn.e.kind = IF IsChooseCallee(call.func) THEN "Choose" ELSE "Call"
         /\ Len(TheReturn.e.args) = k
         /\ \A i \in 1..k : TheReturn.e.args[i] = Lowered(call.args[i])
         /\ ~IsChooseCallee(call.func) =>
              TheReturn.e.fn = IF call.func.kind = "Name" THEN Str(call.func.id)
                               ELSE Lowered(call.func)

\* an operand the enclosing operator has to accept: a declared bare
\* identifier, or any other expression that lowers on its own
OperandLowers(o) ==
  IF o.kind = "Name" THEN Contains(tr_e.vars, o.id) ELSE ~IsRaise(Lowered(o))
LoweredOperand(o) == IF o.kind = "Name" THEN tr_e.vars.m[o.id] ELSE Lowered(o)

OperandsOf(n) ==
  IF n.kind = "BinOp" THEN <<n.left, n.right>>
  ELSE IF n.kind = "UnaryOp" THEN <<n.operand>>
  ELSE <<n.left>> \o n.comparators

InOperatorTable(n) ==
  IF n.kind = "BinOp" THEN n.op \in DOMAIN BinOps
  ELSE IF n.kind = "UnaryOp" THEN n.op = "Not"
  ELSE Len(n.ops) = 1 /\ Len(n.comparators) = 1 /\ n.ops[1] \in DOMAIN CmpOps

\* C10: an expression built with an operator of the table, whose operands are
\* declared bare identifiers or expressions that lower on their own, lowers
\* to BinaryOp/UnaryOp with the operands' lowerings as children.
OperatorsLowerTheirOperands ==
  (tr_tree \in FunctionSources
    /\ (IsReturnOf("BinOp") \/ IsReturnOf("UnaryOp") \/ IsReturnOf("Compare"))
    /\ InOperatorTable(TheFunction.body[1].value)
    /\ \A i \in DOMAIN OperandsOf(TheFunction.body[1].value) :
         OperandLowers(OperandsOf(TheFunction.body[1].value)[i])) =>
      LET operands == OperandsOf(TheFunction.body[1].value)
      IN /\ Translated
         /\ TheReturn.e.kind = IF IsReturnOf("UnaryOp") THEN "UnaryOp" ELSE "BinaryOp"
         /\ TheReturn.e.args = [i \in DOMAIN operands |-> LoweredOperand(operands[i])]

\* the import names and function names of a module, in statement order
ImportNames(body) ==
  LET imps == SelectSeq(body, LAMBDA s : s.kind = "Import")
  IN [i \in 1..Len(imps) |-> imps[i].names[1].name]
DefNames(body) ==
  LET defs == SelectSeq(body, LAMBDA s : s.kind = "FunctionDef")
  IN [i \in 1..Len(defs) |-> defs[i].name]

\* C8: translate_file calls given the same tree return structurally identical
\* results whatever was translated in between, and a Program lists exactly
\* the imports and the functions of its own tree, in order.
TranslationIsDeterministic ==
  /\ \A i, j \in 1..Len(history) :
       history[i].tree = history[j].tree => history[i].v = history[j].v
  /\ \A i \in 1..Len(history) :
       history[i].v.kind = "Program" =>
         /\ history[i].v.imports = ImportNames(history[i].tree.body)
         /\ [k \in 1..Len(history[i].v.fns) |-> history[i].v.fns[k].name]
              = DefNames(history[i].tree.body)

TranslationIsDeterministicWitness ==
  /\ Len(history) >= 2
  /\ history[1].tree # history[2].tree
  /\ history[1].v.kind = "Program"
  /\ history[2].v.kind = "Program"
  /\ Len(history[1].v.imports) >= 1
  /\ Len(history[2].v.imports) >= 1
  /\ Len(history[2].v.fns) >= 1

-----------------------------------------------------------------------------
(* Specifications *)

\* concrete.py at import: _engine = None (line 92); no call is in progress
Init ==
  /\ _engine = None
  /\ engines = <<>>
  /\ pc = [t \in Calls |-> "idle"]
  /\ analysis = [t \in Calls |-> None]
  /\ mod = [t \in Calls |-> None]
  /\ engine = [t \in Calls |-> None]
  /\ func_ptr = [t \in Calls |-> 0]
  /\ outcome = [t \in Calls |-> None]
  /\ tpc = "idle"
  /\ cfunc = None
  /\ tanalysis = None
  /\ count = 0
  /\ iter = 0
  /\ args = <<>>
  /\ choices = <<>>
  /\ ret = None
  /\ traces = <<>>
  /\ invocations = <<>>
  /\ toutcome = None
  /\ tr_tree = None
  /\ tr_e = None
  /\ tr_v = None
  /\ history = <<>>

SpecBridge == Init /\ [][NextBridge]_vars

SpecCompile == Init /\ [][NextCompile]_vars

SpecTraces == Init /\ [][NextTraces]_vars

SpecTranslate == Init /\ [][NextTranslate]_vars

SpecFile == Init /\ [][NextFile]_vars

====
